---- MODULE Spec2Model ----
(***************************************************************************)
(* jconf: path-specification resolution (config_file.rs) and the           *)
(* timestamp-driven directional sync engine (main.rs).                     *)
(*                                                                         *)
(* The sync engine: paths and glob patterns are sequences of components,   *)
(* and the file system maps every path the model tracks to an entry        *)
(* [kind, mtime, content].  The resolver: a path string is a sequence of   *)
(* characters, as escape_var and validated_path read it.                   *)
(***************************************************************************)
EXTENDS Integers, Sequences, FiniteSets, TLC

\* ------------------------------------------------------------------ bounds
\* Modification times of the files present before the first run: 1..MaxMtime.
MaxMtime == 2
\* How many times the clock may tick during the runs.
MaxTicks == 2
\* How many runs of the program follow each other.
MaxRuns == 2

\* ------------------------------------------------------------ sync: state
VARIABLES
    fs,               \* the file system: full path -> entry
    fs0,              \* the file system as it was when the current run began
    clock,            \* the file-system clock (the time fs::copy stamps)
    platform,         \* "stamp": fs::copy leaves the copy time on the destination;
                      \* "preserve": fs::copy clones the source's mtime
    cmd,              \* Args.cmd
    force,            \* Args.force
    specific_configs, \* Args.config: {} is None, {list} is Some(list)
    configs,          \* ConfigFile.configs: name -> ConfigPath
    pc,               \* where run() is: start, loop, pass, done, failed
    todo,             \* the rest of the Vec that run() iterates
    cur,              \* config_name of the iteration under way
    dir,              \* the pass under way: "pull" (origin->linked) or "push"
    pforce,           \* the force argument of the sync() call under way
    cursor,           \* how far the glob iterator is in GlobOrder
    count,            \* sync()'s count
    pulled,           \* the first pass's result, in Sync mode
    results,          \* per finished config: [name, pulled, pushed]
    copied,           \* the fs::copy calls of this run: [name, dir, rel]
    passes,           \* the sync() calls of this run: [name, dir, force]
    last,             \* the last step of a pass: [op, rel]
    run               \* the number of the run under way

\* --------------------------------------------------------- resolver: state
VARIABLES
    raw,              \* the raw specification being deserialized
    env,              \* the process environment: variable name -> {} or {value}
    isdir,            \* the paths that are directories when the resolver runs
    rpc,              \* where the visitor is: str, map, ok, err
    entries,          \* the rest of the table's entries, in document order
    base_path,        \* visit_map's base_path: {} is None
    include_glob,     \* visit_map's include_glob: {} is None
    exclude_glob,     \* visit_map's exclude_glob: {} is None
    resolved          \* the ConfigPath returned, or the error

syncVars == <<fs, fs0, clock, platform, cmd, force, specific_configs, configs, pc,
              todo, cur, dir, pforce, cursor, count, pulled, results, copied,
              passes, last, run>>
resolveVars == <<raw, env, isdir, rpc, entries, base_path, include_glob,
                 exclude_glob, resolved>>
vars == <<syncVars, resolveVars>>

\* ------------------------------------------------------------- sync: data
Names == {"a", "b"}
UnknownName == "x"

\* The relative paths a tree may hold, in the order glob yields them.
GlobOrder == << <<"d">>, <<"d", "g">>, <<"f">> >>
RelPaths == {GlobOrder[i] : i \in 1..Len(GlobOrder)}

OriginBase(name) == <<"home", name>>
OutputPath == <<"out">>
LinkedBase(name) == OutputPath \o <<name>>
Bases == {OriginBase(n) : n \in Names} \cup {LinkedBase(n) : n \in Names}
FullPaths == Bases \cup {b \o r : b \in Bases, r \in RelPaths}

NoEntry == [kind |-> "none", mtime |-> 0, content |-> ""]
DirEntry == [kind |-> "dir", mtime |-> 0, content |-> ""]
SymlinkEntry == [kind |-> "symlink", mtime |-> 0, content |-> ""]
FileEntry(t, c) == [kind |-> "file", mtime |-> t, content |-> c]

MaxClock == MaxMtime + MaxTicks


\* ConfigPath of a configuration whose path specification resolved.
ConfigPath(base, include, exclude) ==
    [base_path |-> base, include_glob |-> include, exclude_glob |-> exclude]

\* ------------------------------------------------------------ glob crate
\* glob(pattern): the walker matches component by component; `*` is one
\* component, `**` is any number of directories.
RECURSIVE GlobMatch(_, _)
GlobMatch(pat, path) ==
    IF pat = <<>> THEN path = <<>>
    ELSE IF Head(pat) = "**"
        THEN GlobMatch(Tail(pat), path)
             \/ (path # <<>> /\ GlobMatch(pat, Tail(path)))
    ELSE IF path = <<>> THEN FALSE
    ELSE IF Head(pat) = "*" THEN GlobMatch(Tail(pat), Tail(path))
    ELSE Head(pat) = Head(path) /\ GlobMatch(Tail(pat), Tail(path))

\* Pattern::matches_path with the default MatchOptions
\* (require_literal_separator = false): `*` also runs across separators.
RECURSIVE PatternMatches(_, _)
PatternMatches(pat, path) ==
    IF pat = <<>> THEN path = <<>>
    ELSE IF Head(pat) = "**"
        THEN PatternMatches(Tail(pat), path)
             \/ (path # <<>> /\ PatternMatches(pat, Tail(path)))
    ELSE IF path = <<>> THEN FALSE
    ELSE IF Head(pat) = "*"
        THEN \E k \in 1..Len(path) :
                PatternMatches(Tail(pat), SubSeq(path, k + 1, Len(path)))
    ELSE Head(pat) = Head(path) /\ PatternMatches(Tail(pat), Tail(path))

\* --------------------------------------------------- ConfigFile (reducer)
\* A loop that passes over an unknown name instead of returning the error.
RECURSIVE ReduceLoopSkipUnknown(_, _, _)
ReduceLoopSkipUnknown(keys, names, ret) ==
    IF names = <<>> THEN [ok |-> TRUE, list |-> ret]
    ELSE IF Head(names) \in keys
        THEN ReduceLoopSkipUnknown(keys \ {Head(names)}, Tail(names),
                                   Append(ret, Head(names)))
    ELSE ReduceLoopSkipUnknown(keys, Tail(names), ret)

\* The loop of reduce_to_configs over the selected names.  The Vec it builds
\* pairs each name with its ConfigPath; the model keeps the names and reads
\* the ConfigPath from `configs`.
RECURSIVE ReduceLoop(_, _, _)
ReduceLoop(keys, names, ret) ==
    IF names = <<>> THEN [ok |-> TRUE, list |-> ret]
    ELSE IF Head(names) \in keys
        THEN ReduceLoop(keys \ {Head(names)}, Tail(names), Append(ret, Head(names)))
    ELSE [ok |-> FALSE, list |-> <<>>]

\* The orders in which a HashMap's into_iter() may yield its keys.
RECURSIVE Orderings(_)
Orderings(keys) ==
    IF keys = {} THEN {<<>>}
    ELSE UNION {{<<k>> \o o : o \in Orderings(keys \ {k})} : k \in keys}

\* reduce_to_configs: the set of results it may return.
ReduceToConfigs(cfgs, sel) ==
    IF sel = {} THEN {[ok |-> TRUE, list |-> o] : o \in Orderings(DOMAIN cfgs)}
    ELSE {ReduceLoop(DOMAIN cfgs, CHOOSE l \in sel : TRUE, <<>>)}

\* ------------------------------------------------------------ sync engine
Join(base, path) == base \o path

IsFile(f, path) == path \in DOMAIN f /\ f[path].kind = "file"
Exists(f, path) == path \in DOMAIN f /\ f[path].kind # "none"

FromBase == IF dir = "pull" THEN configs[cur].base_path ELSE LinkedBase(cur)
ToBase == IF dir = "pull" THEN LinkedBase(cur) ELSE configs[cur].base_path

\* sync(): "{from_base}/{glob}", for the include and the exclude pattern.
Anchored(from_base, glob) == from_base \o glob

\* Whether the glob iterator yields `full`.
GlobYields(f, from_base, include, full) ==
    Exists(f, full) /\ GlobMatch(Anchored(from_base, include), full)

\* A loop without the exclude test.
NeverExcluded(from_base, exclude, full) == FALSE

\* The exclude test of sync()'s loop.
Excluded(from_base, exclude, full) ==
    \E e \in exclude : PatternMatches(Anchored(from_base, e), full)

TrimBasePath(f, full_path, base) ==
    LET base_len == Len(base) - (IF IsFile(f, base) THEN 1 ELSE 0)
    IN  SubSeq(full_path, base_len + 1, Len(full_path))

\* The comparison turned round: the older file wins.
ShouldSyncOlderWins(f, from_path, to_path, frc) ==
    \/ frc
    \/ ~Exists(f, to_path)
    \/ f[from_path].mtime < f[to_path].mtime

\* The comparison not strict: an equal mtime copies too.
ShouldSyncNotOlder(f, from_path, to_path, frc) ==
    \/ frc
    \/ ~Exists(f, to_path)
    \/ f[from_path].mtime >= f[to_path].mtime

\* sync_file's should_sync.
ShouldSync(f, from_path, to_path, frc) ==
    \/ frc
    \/ ~Exists(f, to_path)
    \/ f[from_path].mtime > f[to_path].mtime

\* fs::create_dir_all(parent of to_path): every missing ancestor becomes a
\* directory.
CreateDirAll(f, to_path) ==
    [p \in DOMAIN f |->
        IF Len(p) < Len(to_path) /\ SubSeq(to_path, 1, Len(p)) = p /\ f[p].kind = "none"
        THEN DirEntry ELSE f[p]]

\* A rename in place of the copy: the source is gone afterwards.
FsMove(f, from_path, to_path, t) ==
    [f EXCEPT ![to_path] = FileEntry(t, f[from_path].content), ![from_path] = NoEntry]

\* fs::copy(from_path, to_path), the destination's mtime becoming t.
FsCopy(f, from_path, to_path, t) ==
    [f EXCEPT ![to_path] = FileEntry(t, f[from_path].content)]

\* The mtimes fs::copy may leave on the destination.  std::fs::copy copies
\* the bytes and the permission bits; what becomes of the mtime is the
\* platform's: where it clones the file (fclonefileat, fcopyfile) the
\* destination keeps the source's mtime, where it writes the bytes
\* (copy_file_range) the destination is stamped with the time of the write,
\* the clock having ticked since the last stamp or not.
CopyTimes(f, from_path) ==
    IF platform = "preserve" THEN {f[from_path].mtime}
    ELSE {t \in {clock, clock + 1} : t <= MaxClock}

\* The indices of GlobOrder the iterator still has to yield.
Pending ==
    {i \in (cursor + 1)..Len(GlobOrder) :
        GlobYields(fs, FromBase, configs[cur].include_glob, Join(FromBase, GlobOrder[i]))}

NextIndex == CHOOSE i \in Pending : \A j \in Pending : i <= j

NoStep == [op |-> "none", rel |-> <<>>, existed |-> FALSE, newer |-> FALSE]

Step(op, rel, existed, newer) ==
    [op |-> op, rel |-> rel, existed |-> existed, newer |-> newer]

\* Command::Sync handing the caller's flag on.
SyncModeForceHonoured == force

\* The force argument of the two sync() calls of Command::Sync.
SyncModeForce == FALSE

\* The direction and the force argument of the first sync() call of a mode.
FirstDir(c) == IF c = "push" THEN "push" ELSE "pull"
FirstForce(c, frc) == IF c = "sync" THEN SyncModeForce ELSE frc

\* ----------------------------------------------------------- sync: actions
\* run(): get_config_file and reduce_to_configs; an error ends the run.
Reduce ==
    /\ pc = "start"
    /\ \E r \in ReduceToConfigs(configs, specific_configs) :
          IF r.ok
          THEN pc' = "loop" /\ todo' = r.list
          ELSE pc' = "failed" /\ todo' = <<>>
    /\ UNCHANGED <<fs, fs0, clock, platform, cmd, force, specific_configs, configs,
                   cur, dir, pforce, cursor, count, pulled, results, copied,
                   passes, last, run>>
    /\ UNCHANGED resolveVars

\* The loop of run() takes the next configuration and calls sync() for the
\* first (or only) pass of the mode.
BeginConfig ==
    /\ pc = "loop"
    /\ todo # <<>>
    /\ cur' = Head(todo)
    /\ todo' = Tail(todo)
    /\ dir' = FirstDir(cmd)
    /\ pforce' = FirstForce(cmd, force)
    /\ cursor' = 0
    /\ count' = 0
    /\ pulled' = 0
    /\ passes' = Append(passes, [name |-> Head(todo), dir |-> FirstDir(cmd),
                                  force |-> FirstForce(cmd, force)])
    /\ last' = NoStep
    /\ pc' = "pass"
    /\ UNCHANGED <<fs, fs0, clock, platform, cmd, force, specific_configs, configs,
                   results, copied, run>>
    /\ UNCHANGED resolveVars

\* sync()'s loop: the entry the glob yields matches the exclude pattern.
GlobExcluded ==
    /\ pc = "pass"
    /\ Pending # {}
    /\ Excluded(FromBase, configs[cur].exclude_glob, Join(FromBase, GlobOrder[NextIndex]))
    /\ cursor' = NextIndex
    /\ last' = Step("excluded", GlobOrder[NextIndex], FALSE, FALSE)
    /\ UNCHANGED <<fs, fs0, clock, platform, cmd, force, specific_configs, configs,
                   pc, todo, cur, dir, pforce, count, pulled, results, copied,
                   passes, run>>
    /\ UNCHANGED resolveVars

\* sync()'s loop: trim_base_path and sync_file on the entry the glob yields.
SyncFile ==
    /\ pc = "pass"
    /\ Pending # {}
    /\ LET full_file_path == Join(FromBase, GlobOrder[NextIndex])
           file_path == TrimBasePath(fs, full_file_path, FromBase)
           from_path == Join(FromBase, file_path)
           to_path == Join(ToBase, file_path)
           to_path_exists == Exists(fs, to_path)
           newer == to_path_exists /\ fs[from_path].mtime > fs[to_path].mtime
       IN  /\ ~Excluded(FromBase, configs[cur].exclude_glob, full_file_path)
           /\ cursor' = NextIndex
           /\ IF fs[from_path].kind \in {"dir", "symlink"}
              THEN /\ last' = Step("skip", file_path, to_path_exists, FALSE)
                   /\ UNCHANGED <<fs, clock, count, copied>>
              ELSE IF ShouldSync(fs, from_path, to_path, pforce)
              THEN /\ \E t \in CopyTimes(fs, from_path) :
                        /\ fs' = FsCopy(IF to_path_exists THEN fs
                                        ELSE CreateDirAll(fs, to_path),
                                        from_path, to_path, t)
                        /\ clock' = IF platform = "stamp" THEN t ELSE clock
                   /\ count' = count + 1
                   /\ copied' = copied \cup
                                   {[name |-> cur, dir |-> dir, rel |-> file_path]}
                   /\ last' = Step("copy", file_path, to_path_exists, newer)
              ELSE /\ last' = Step("keep", file_path, to_path_exists, newer)
                   /\ UNCHANGED <<fs, clock, count, copied>>
    /\ UNCHANGED <<fs0, platform, cmd, force, specific_configs, configs, pc, todo,
                   cur, dir, pforce, pulled, results, passes, run>>
    /\ UNCHANGED resolveVars

\* Command::Sync: the first sync() has returned, the second one is called.
StartPush ==
    /\ pc = "pass"
    /\ Pending = {}
    /\ cmd = "sync"
    /\ dir = "pull"
    /\ pulled' = count
    /\ dir' = "push"
    /\ pforce' = SyncModeForce
    /\ cursor' = 0
    /\ count' = 0
    /\ passes' = Append(passes, [name |-> cur, dir |-> "push", force |-> SyncModeForce])
    /\ last' = NoStep
    /\ UNCHANGED <<fs, fs0, clock, platform, cmd, force, specific_configs, configs,
                   pc, todo, cur, results, copied, run>>
    /\ UNCHANGED resolveVars

\* The last sync() of the configuration has returned its count.
EndConfig ==
    /\ pc = "pass"
    /\ Pending = {}
    /\ ~(cmd = "sync" /\ dir = "pull")
    /\ results' = Append(results,
                         [name |-> cur,
                          pulled |-> IF cmd = "sync" THEN pulled
                                     ELSE IF dir = "pull" THEN count ELSE 0,
                          pushed |-> IF dir = "push" THEN count ELSE 0])
    /\ pc' = "loop"
    /\ UNCHANGED <<fs, fs0, clock, platform, cmd, force, specific_configs, configs,
                   todo, cur, dir, pforce, cursor, count, pulled, copied, passes,
                   last, run>>
    /\ UNCHANGED resolveVars

\* An I/O error (a glob entry, fs::metadata, create_dir_all or fs::copy
\* failing) leaves sync() through `?` and ends the run.
IoFail ==
    /\ pc = "pass"
    /\ pc' = "failed"
    /\ last' = Step("ioerr", <<>>, FALSE, FALSE)
    /\ UNCHANGED <<fs, fs0, clock, platform, cmd, force, specific_configs, configs,
                   todo, cur, dir, pforce, cursor, count, pulled, results, copied,
                   passes, run>>
    /\ UNCHANGED resolveVars

\* run() returns Ok(()).
Finish ==
    /\ pc = "loop"
    /\ todo = <<>>
    /\ pc' = "done"
    /\ UNCHANGED <<fs, fs0, clock, platform, cmd, force, specific_configs, configs,
                   todo, cur, dir, pforce, cursor, count, pulled, results, copied,
                   passes, last, run>>
    /\ UNCHANGED resolveVars

\* A Sync run that completed is followed by another with the same arguments,
\* nothing else having touched the trees.
Rerun ==
    /\ pc = "done"
    /\ cmd = "sync"
    /\ run < MaxRuns
    /\ run' = run + 1
    /\ pc' = "start"
    /\ fs0' = fs
    /\ results' = <<>>
    /\ copied' = {}
    /\ passes' = <<>>
    /\ last' = NoStep
    /\ cur' = ""
    /\ dir' = ""
    /\ UNCHANGED <<fs, clock, platform, cmd, force, specific_configs, configs, todo,
                   pforce, cursor, count, pulled>>
    /\ UNCHANGED resolveVars

\* -------------------------------------------------------------- sync: Init
Shapes == {NoEntry, DirEntry, SymlinkEntry} \cup {FileEntry(t, "") : t \in 1..MaxMtime}

D == <<"d">>
G == <<"d", "g">>
F == <<"f">>

\* The trees a base directory may hold.
Trees ==
    {t \in [RelPaths -> Shapes] :
        /\ t[D].kind \in {"none", "dir"}
        /\ t[G].kind \in {"none", "file"}
        /\ t[G].kind = "file" => t[D].kind = "dir"
        /\ t[F].kind \in {"none", "symlink", "file"}}
EmptyTree == [r \in RelPaths |-> NoEntry]
\* Trees of one plain file at most.
FlatTrees == {t \in Trees : t[D].kind = "none" /\ t[F].kind \in {"none", "file"}}

\* A regular file on one side is a regular file, or missing, on the other.
Compatible(o, l) ==
    \A r \in RelPaths :
        /\ o[r].kind = "file" => l[r].kind \in {"none", "file"}
        /\ l[r].kind = "file" => o[r].kind \in {"none", "file"}

\* A pair of trees of one configuration: the origin tree, whether the linked
\* base directory exists, and the linked tree.
TreePairs(trees) ==
    {tp \in [o : trees, lb : BOOLEAN, l : trees] :
        /\ Compatible(tp.o, tp.l)
        /\ ~tp.lb => tp.l = EmptyTree}
EmptyPair == [o |-> EmptyTree, lb |-> FALSE, l |-> EmptyTree]

Labelled(e, c) == IF e.kind = "file" THEN FileEntry(e.mtime, c) ELSE e

\* The file system of the tree pairs tp[name].
MkFs(tp) ==
    [p \in FullPaths |->
        LET n == p[2]
            rel == SubSeq(p, 3, Len(p))
        IN  IF p[1] = "home"
            THEN IF rel = <<>> THEN DirEntry ELSE Labelled(tp[n].o[rel], "O")
            ELSE IF rel = <<>> THEN (IF tp[n].lb THEN DirEntry ELSE NoEntry)
            ELSE Labelled(tp[n].l[rel], "L")]

Commands == {"sync", "pull", "push"}
Platforms == {"stamp", "preserve"}
AllGlob == <<"**", "*">>
IncludeGlobs == {AllGlob, <<"*">>, <<"f">>}
ExcludeGlobs == {{}, {<<"f">>}, {<<"d", "*">>}, {<<"d">>}}

\* Args.config in the runs of several configurations.
Selections ==
    {{}, {<<"a">>}, {<<"b", "a">>}, {<<"x">>}, {<<"a", "x">>}, {<<"a", "a">>}}

ResolverIdle ==
    /\ raw = <<>>
    /\ env = <<>>
    /\ isdir = {}
    /\ rpc = "idle"
    /\ entries = <<>>
    /\ base_path = {}
    /\ include_glob = {}
    /\ exclude_glob = {}
    /\ resolved = <<>>

RunStart ==
    /\ fs0 = fs
    /\ clock = MaxMtime
    /\ platform \in Platforms
    /\ cmd \in Commands
    /\ force \in BOOLEAN
    /\ pc = "start"
    /\ todo = <<>>
    /\ cur = ""
    /\ dir = ""
    /\ pforce = FALSE
    /\ cursor = 0
    /\ count = 0
    /\ pulled = 0
    /\ results = <<>>
    /\ copied = {}
    /\ passes = <<>>
    /\ last = NoStep
    /\ run = 1

\* Runs over two configurations of flat trees, every file matched.
Init ==
    /\ \E exc \in {{}, {<<"f">>}} :
          configs = [n \in Names |->
                        ConfigPath(OriginBase(n), AllGlob, IF n = "b" THEN exc ELSE {})]
    /\ specific_configs \in Selections
    /\ \E tp \in [Names -> TreePairs(FlatTrees)] : fs = MkFs(tp)
    /\ RunStart
    /\ ResolverIdle

\* Runs over one configuration, of any tree and any patterns.
InitEngine ==
    /\ \E inc \in IncludeGlobs, exc \in ExcludeGlobs :
          configs = [n \in {"a"} |-> ConfigPath(OriginBase(n), inc, exc)]
    /\ specific_configs \in {{<<"a">>}, {<<UnknownName>>}}
    /\ \E tp \in TreePairs(Trees) : fs = MkFs([n \in Names |-> IF n = "a" THEN tp ELSE EmptyPair])
    /\ RunStart
    /\ ResolverIdle

\* ------------------------------------------------- resolver: strings
\* A string is a sequence of characters.
MaxLen == 3
Alphabet == {"/", "d", "~", "$"}
RECURSIVE StringsOf(_)
StringsOf(n) ==
    IF n = 0 THEN {<<>>}
    ELSE StringsOf(n - 1) \cup {Append(x, c) : x \in {y \in StringsOf(n - 1) : Len(y) = n - 1},
                                               c \in Alphabet}
Strings == StringsOf(MaxLen)

StartsWith(str, c) == str # <<>> /\ str[1] = c
EndsWith(str, c) == str # <<>> /\ str[Len(str)] = c

RECURSIVE TrimStartMatches(_, _)
TrimStartMatches(str, c) ==
    IF StartsWith(str, c) THEN TrimStartMatches(Tail(str), c) ELSE str

RECURSIVE TrimEndMatches(_, _)
TrimEndMatches(str, c) ==
    IF EndsWith(str, c) THEN TrimEndMatches(SubSeq(str, 1, Len(str) - 1), c) ELSE str

\* str.split_once(c): {} is None, {<<before, after>>} is Some.
SplitOnce(str, c) ==
    LET hits == {i \in 1..Len(str) : str[i] = c}
    IN  IF hits = {} THEN {}
        ELSE LET i == CHOOSE k \in hits : \A j \in hits : k <= j
             IN  {<<SubSeq(str, 1, i - 1), SubSeq(str, i + 1, Len(str))>>}

\* The components of a path string.
RECURSIVE Components(_)
Components(str) ==
    LET t == TrimStartMatches(str, "/")
    IN  IF t = <<>> THEN <<>>
        ELSE LET sp == SplitOnce(t, "/")
             IN  IF sp = {} THEN <<t>>
                 ELSE LET pr == CHOOSE x \in sp : TRUE
                      IN  <<pr[1]>> \o Components(pr[2])

\* The file a path string names: absolute or relative, and its components.
Location(str) == [abs |-> StartsWith(str, "/"), comps |-> Components(str)]
RootDir == [abs |-> TRUE, comps |-> <<>>]

\* Path::is_dir.
IsDir(str) == str # <<>> /\ (Location(str) = RootDir \/ Location(str) \in isdir)

\* Path::file_name: {} is None.
FileName(str) ==
    LET c == Components(str) IN IF c = <<>> THEN {} ELSE {c[Len(c)]}

RECURSIVE TrimEndNotMatches(_, _)
TrimEndNotMatches(str, c) ==
    IF str # <<>> /\ str[Len(str)] # c
    THEN TrimEndNotMatches(SubSeq(str, 1, Len(str) - 1), c) ELSE str

\* PathBuf::pop: the path is cut to its parent.
Pop(str) ==
    IF Components(str) = <<>> THEN str
    ELSE LET parent == TrimEndMatches(TrimEndNotMatches(TrimEndMatches(str, "/"), "/"), "/")
         IN  IF parent = <<>> /\ StartsWith(str, "/") THEN <<"/">> ELSE parent

\* env::var: the one variable the environment may hold is named "d".
EnvVar(name) == IF name = <<"d">> THEN env.d ELSE {}

Ok(v) == [ok |-> TRUE, val |-> v, err |-> ""]
Err(e) == [ok |-> FALSE, val |-> <<>>, err |-> e]

\* escape_var's second half: a leading '~' becomes $HOME.  The expect() on
\* an unset HOME panics; the model ends the resolution with that message.
EscapeHome(path_str) ==
    IF StartsWith(path_str, "~")
    THEN IF env.HOME = {} THEN Err("panic: $HOME should exist")
         ELSE LET home == CHOOSE h \in env.HOME : TRUE
                  sp == SplitOnce(path_str, "/")
              IN  IF sp # {} THEN Ok(home \o <<"/">> \o (CHOOSE x \in sp : TRUE)[2])
                  ELSE Ok(home)
    ELSE Ok(path_str)

EscapeVar(path) ==
    IF StartsWith(path, "$")
    THEN LET p == TrimStartMatches(path, "$")
             sp == SplitOnce(p, "/")
             env_key == IF sp # {} THEN (CHOOSE x \in sp : TRUE)[1] ELSE p
         IN  IF EnvVar(env_key) = {} THEN Err("EnvVarMissing")
             ELSE LET var == CHOOSE v \in EnvVar(env_key) : TRUE
                  IN  EscapeHome(IF sp # {} THEN var \o <<"/">> \o (CHOOSE x \in sp : TRUE)[2]
                                 ELSE var)
    ELSE EscapeHome(path)

\* validated_path: the base path and what include_glob becomes.
ValidatedPath(val, inc) ==
    LET ends_with_slash == EndsWith(val, "/")
        esc == EscapeVar(val)
        path == esc.val
    IN  IF ~esc.ok THEN [ok |-> FALSE, path |-> <<>>, include_glob |-> inc, err |-> esc.err]
        ELSE IF ~ends_with_slash /\ IsDir(path)
        THEN [ok |-> FALSE, path |-> <<>>, include_glob |-> inc, err |-> "InvalidDirectorySpec"]
        ELSE IF ~ends_with_slash
        THEN IF FileName(path) = {}
             THEN [ok |-> FALSE, path |-> <<>>, include_glob |-> inc,
                   err |-> "Path should not be empty"]
             ELSE [ok |-> TRUE, path |-> Pop(path), include_glob |-> FileName(path),
                   err |-> ""]
        ELSE [ok |-> TRUE, path |-> path, include_glob |-> inc, err |-> ""]

DefaultInclude == <<"*", "*", "/", "*">>
UnwrapOr(opt, default) == IF opt = {} THEN default ELSE CHOOSE x \in opt : TRUE

\* An "include" arm that always takes the field's value.
IncludeFieldReplace(inc, v) == {v}

\* visit_map's "include" arm.
IncludeField(inc, v) == IF inc = {} THEN {v} ELSE inc

\* ------------------------------------------------------ resolver: actions
\* visit_str (and visit_string): a bare string.
VisitStr ==
    /\ rpc = "str"
    /\ LET r == ValidatedPath(raw.path, {})
       IN  IF r.ok
           THEN /\ rpc' = "ok"
                /\ resolved' = ConfigPath(r.path, UnwrapOr(r.include_glob, DefaultInclude), {})
                /\ base_path' = {r.path}
                /\ include_glob' = r.include_glob
           ELSE /\ rpc' = "err"
                /\ resolved' = r.err
                /\ UNCHANGED <<base_path, include_glob>>
    /\ UNCHANGED <<raw, env, isdir, entries, exclude_glob>>
    /\ UNCHANGED syncVars

\* visit_map: one turn of the loop over the table's entries.
VisitMapEntry ==
    /\ rpc = "map"
    /\ entries # <<>>
    /\ entries' = Tail(entries)
    /\ LET k == Head(entries)[1]
           v == Head(entries)[2]
       IN  CASE k = "path" ->
                  LET r == ValidatedPath(v, include_glob)
                  IN  IF r.ok
                      THEN /\ base_path' = {r.path}
                           /\ include_glob' = r.include_glob
                           /\ UNCHANGED <<rpc, resolved, exclude_glob>>
                      ELSE /\ rpc' = "err"
                           /\ resolved' = r.err
                           /\ UNCHANGED <<base_path, include_glob, exclude_glob>>
            [] k = "include" ->
                  /\ include_glob' = IncludeField(include_glob, v)
                  /\ UNCHANGED <<rpc, resolved, base_path, exclude_glob>>
            [] k = "exclude" ->
                  /\ exclude_glob' = {v}
                  /\ UNCHANGED <<rpc, resolved, base_path, include_glob>>
            [] OTHER ->
                  UNCHANGED <<rpc, resolved, base_path, include_glob, exclude_glob>>
    /\ UNCHANGED <<raw, env, isdir>>
    /\ UNCHANGED syncVars

\* visit_map: the table is read; the ConfigPath is built.
VisitMapEnd ==
    /\ rpc = "map"
    /\ entries = <<>>
    /\ IF base_path = {}
       THEN rpc' = "err" /\ resolved' = "MissingPathField"
       ELSE /\ rpc' = "ok"
            /\ resolved' = ConfigPath(CHOOSE b \in base_path : TRUE,
                                      UnwrapOr(include_glob, DefaultInclude),
                                      exclude_glob)
    /\ UNCHANGED <<raw, env, isdir, entries, base_path, include_glob, exclude_glob>>
    /\ UNCHANGED syncVars

\* --------------------------------------------------------- resolver: Init
IncludeValue == <<"*">>
ExcludeValue == <<"d", "*">>

\* The key orders of a table: TOML keeps document order and has no
\* duplicate keys.
KeyOrders ==
    {<<>>, <<"include">>, <<"path">>, <<"path", "include">>, <<"include", "path">>,
     <<"path", "exclude">>, <<"other", "path">>,
     <<"path", "include", "exclude">>, <<"exclude", "include", "path">>}

Table(keys, pathval) ==
    [i \in 1..Len(keys) |->
        <<keys[i], CASE keys[i] = "path" -> pathval
                     [] keys[i] = "include" -> IncludeValue
                     [] keys[i] = "exclude" -> ExcludeValue
                     [] OTHER -> <<"d">>>>]

RawSpecs ==
    {[form |-> "str", path |-> v, keys |-> <<>>] : v \in Strings}
    \cup {[form |-> "map", path |-> v, keys |-> k] : v \in Strings, k \in KeyOrders}

Environments == [HOME : {{}, {<<"/", "d">>}}, d : {{}, {<<"/", "d">>}, {<<"d", "/">>}}]
DirSets ==
    {{}, {[abs |-> FALSE, comps |-> <<"d">>]},
     {[abs |-> TRUE, comps |-> <<"d">>]},
     {[abs |-> FALSE, comps |-> <<"d">>], [abs |-> TRUE, comps |-> <<"d">>],
      [abs |-> TRUE, comps |-> <<"d", "d">>]}}

SyncIdle ==
    /\ fs = [p \in FullPaths |-> NoEntry]
    /\ fs0 = fs
    /\ clock = 0
    /\ platform = "stamp"
    /\ cmd = "sync"
    /\ force = FALSE
    /\ specific_configs = {}
    /\ configs = <<>>
    /\ pc = "idle"
    /\ todo = <<>>
    /\ cur = ""
    /\ dir = ""
    /\ pforce = FALSE
    /\ cursor = 0
    /\ count = 0
    /\ pulled = 0
    /\ results = <<>>
    /\ copied = {}
    /\ passes = <<>>
    /\ last = NoStep
    /\ run = 1

InitResolve ==
    /\ raw \in RawSpecs
    /\ env \in Environments
    /\ isdir \in DirSets
    /\ rpc = raw.form
    /\ entries = IF raw.form = "map" THEN Table(raw.keys, raw.path) ELSE <<>>
    /\ base_path = {}
    /\ include_glob = {}
    /\ exclude_glob = {}
    /\ resolved = <<>>
    /\ SyncIdle

NextResolve ==
    \/ VisitStr
    \/ VisitMapEntry
    \/ VisitMapEnd

SpecResolve == InitResolve /\ [][NextResolve]_vars

Next ==
    \/ Reduce
    \/ BeginConfig
    \/ GlobExcluded
    \/ SyncFile
    \/ StartPush
    \/ EndConfig
    \/ IoFail
    \/ Finish
    \/ Rerun

\* One run only.
NextEngine ==
    \/ Reduce
    \/ BeginConfig
    \/ GlobExcluded
    \/ SyncFile
    \/ StartPush
    \/ EndConfig
    \/ IoFail
    \/ Finish

Spec == Init /\ [][Next]_vars
SpecEngine == InitEngine /\ [][NextEngine]_vars

\* ================================================================== claims
IsPrefix(a, b) == Len(a) <= Len(b) /\ SubSeq(b, 1, Len(a)) = a

\* Whether a pass of configuration n over the tree under `base` takes rel:
\* the include pattern matches it and the exclude pattern does not.
Matched(n, base, rel) ==
    /\ GlobMatch(Anchored(base, configs[n].include_glob), Join(base, rel))
    /\ \A e \in configs[n].exclude_glob :
          ~PatternMatches(Anchored(base, e), Join(base, rel))

Pulled(n, rel) == [name |-> n, dir |-> "pull", rel |-> rel] \in copied
Pushed(n, rel) == [name |-> n, dir |-> "push", rel |-> rel] \in copied

\* The entry a step of a pass has taken from the glob iterator, if any.
Took(rel) == pc = "pass" /\ cursor' # cursor /\ cursor' # 0 /\ GlobOrder[cursor'] = rel

NewerLinked(n, rel) ==
    /\ IsFile(fs0, Join(configs[n].base_path, rel))
    /\ IsFile(fs0, Join(LinkedBase(n), rel))
    /\ fs0[Join(configs[n].base_path, rel)].mtime < fs0[Join(LinkedBase(n), rel)].mtime
    /\ Matched(n, LinkedBase(n), rel)
    /\ Matched(n, configs[n].base_path, rel)

C2_NewerWins ==
    cmd = "sync" =>
        \A i \in 1..Len(results) : \A rel \in RelPaths :
            NewerLinked(results[i].name, rel) =>
                /\ ~Pulled(results[i].name, rel)
                /\ Pushed(results[i].name, rel)
                /\ fs[Join(configs[results[i].name].base_path, rel)].content
                     = fs0[Join(LinkedBase(results[i].name), rel)].content

C2_Witness ==
    /\ cmd = "sync"
    /\ pc = "done"
    /\ \E i \in 1..Len(results) : \E rel \in RelPaths :
          /\ NewerLinked(results[i].name, rel)
          /\ results[i].pushed >= 1

\* ---- C3: for a source entry that is a regular file, sync_file copies it
\* and returns true exactly when force is set, or the destination is
\* missing, or the source's mtime is strictly later; otherwise nothing
\* changes.  A forced Pull overwrites every such destination.
C3_Decision(rel) ==
    \/ pforce
    \/ fs[Join(ToBase, rel)].kind = "none"
    \/ fs[Join(FromBase, rel)].mtime > fs[Join(ToBase, rel)].mtime

C3_CopyDecision ==
    [][\A rel \in RelPaths :
          (/\ Took(rel)
           /\ fs[Join(FromBase, rel)].kind = "file"
           /\ Matched(cur, FromBase, rel))
          => /\ C3_Decision(rel) <=> count' = count + 1
             /\ ~C3_Decision(rel) => fs' = fs /\ count' = count
             /\ C3_Decision(rel) =>
                   /\ fs'[Join(ToBase, rel)].kind = "file"
                   /\ fs'[Join(ToBase, rel)].content = fs[Join(FromBase, rel)].content
             /\ (cmd = "pull" /\ force) => count' = count + 1]_vars

C3_Witness ==
    /\ pc = "pass"
    /\ last.op = "keep"
    /\ ~pforce
    /\ fs[Join(FromBase, last.rel)].mtime = fs[Join(ToBase, last.rel)].mtime

\* ---- C4: in a pass, forced or not, a file under from_base that the
\* include and the exclude pattern both match is not copied and not counted.
C4_ExcludePrecedence ==
    [][pc = "pass" =>
          \A rel \in RelPaths :
              (/\ fs[Join(FromBase, rel)].kind \in {"file", "symlink"}
               /\ GlobMatch(Anchored(FromBase, configs[cur].include_glob),
                            Join(FromBase, rel))
               /\ \E e \in configs[cur].exclude_glob :
                     PatternMatches(Anchored(FromBase, e), Join(FromBase, rel)))
              => /\ fs'[Join(ToBase, rel)] = fs[Join(ToBase, rel)]
                 /\ Took(rel) => count' = count]_vars

C4_Witness ==
    /\ pc = "pass"
    /\ pforce
    /\ last.op = "excluded"
    /\ IsFile(fs, Join(FromBase, last.rel))
    /\ GlobMatch(Anchored(FromBase, configs[cur].include_glob), Join(FromBase, last.rel))

\* ---- C5: a selected name that is no key of the mapping makes
\* reduce_to_configs fail with no list, also after valid names, and the run
\* makes no pass: no file is copied, no directory created.
UnknownSelected ==
    \E l \in specific_configs : \E i \in 1..Len(l) : l[i] \notin DOMAIN configs

C5_UnknownNameNoEffect ==
    UnknownSelected =>
        /\ pc \in {"start", "failed"}
        /\ todo = <<>>
        /\ passes = <<>>
        /\ results = <<>>
        /\ copied = {}
        /\ fs = fs0

C5_Witness ==
    /\ pc = "failed"
    /\ \E l \in specific_configs :
          Len(l) = 2 /\ l[1] \in DOMAIN configs /\ l[2] \notin DOMAIN configs

\* ---- C6: a configuration processed in Sync mode gets the origin->linked
\* pass, then, once that has returned, the linked->origin pass, both with
\* force = false; in Pull and Push mode it gets one pass, in the named
\* direction, with the caller's flag.
ExpectedPasses(n) ==
    IF cmd = "sync"
    THEN << [name |-> n, dir |-> "pull", force |-> FALSE],
            [name |-> n, dir |-> "push", force |-> FALSE] >>
    ELSE << [name |-> n, dir |-> cmd, force |-> force] >>

RECURSIVE PassesOf(_, _)
PassesOf(n, log) ==
    IF log = <<>> THEN <<>>
    ELSE IF Head(log).name = n THEN <<Head(log)>> \o PassesOf(n, Tail(log))
    ELSE PassesOf(n, Tail(log))

PassLogOk ==
    /\ \A i \in 1..Len(results) :
          PassesOf(results[i].name, passes) = ExpectedPasses(results[i].name)
    /\ \A i \in 1..Len(passes) :
          IsPrefix(PassesOf(passes[i].name, passes), ExpectedPasses(passes[i].name))
    /\ pc = "pass" =>
          /\ passes # <<>>
          /\ passes[Len(passes)] = [name |-> cur, dir |-> dir, force |-> pforce]

C6_PassOrderAndForce ==
    [][/\ PassLogOk'
       /\ (/\ Len(passes') > Len(passes)
           /\ passes # <<>>
           /\ passes'[Len(passes')].name = passes[Len(passes)].name)
          => Pending = {}]_vars

C6_Witness ==
    /\ cmd = "sync"
    /\ force
    /\ Len(results) = 2
    /\ Len(passes) = 4

\* ---- C7: a path specification that resolves has a base_path that is an
\* existing directory; a trailing '/' on something that is no directory,
\* or a missing parent directory, makes resolution fail.
\* (An empty base_path is read as the current directory.)
C7_BasePathIsDirectory ==
    rpc = "ok" => (resolved.base_path = <<>> \/ IsDir(resolved.base_path))

\* ---- C8: a table with `include` and a `path` that does not end in '/'.
HasIncludeAndFilePath ==
    /\ rpc = "ok"
    /\ raw.form = "map"
    /\ \E i \in 1..Len(raw.keys) : raw.keys[i] = "include"
    /\ \E i \in 1..Len(raw.keys) : raw.keys[i] = "path"
    /\ ~EndsWith(raw.path, "/")

\* ---- C8 as stated: the resolved include_glob is the `include` field's
\* value, in either order of the keys.
C8_IncludeFieldWins ==
    HasIncludeAndFilePath => resolved.include_glob = IncludeValue

\* ---- C8 as amended: the resolved include_glob is the final segment of
\* the path, in either order of the keys; the `include` field is ignored.
C8_PathSegmentWins ==
    HasIncludeAndFilePath =>
        /\ resolved.include_glob \in FileName(EscapeVar(raw.path).val)
        /\ resolved.include_glob # IncludeValue

C8_Witness ==
    /\ HasIncludeAndFilePath
    /\ raw.keys = <<"include", "path">>
    /\ resolved.include_glob = <<"d", "d">>

\* ---- C9: a pass, forced or not, completed or failed part-way, removes
\* nothing, leaves the source tree as it was, and changes at the
\* destination only the files it copies onto, at to_base joined with a
\* matched relative path, and the missing parent directories of those.
CopyTarget(p) ==
    \E rel \in RelPaths :
        /\ p = Join(ToBase, rel)
        /\ Took(rel)
        /\ fs[Join(FromBase, rel)].kind = "file"
        /\ Matched(cur, FromBase, rel)
        /\ fs'[p].kind = "file"
        /\ fs'[p].content = fs[Join(FromBase, rel)].content

NewParent(p) ==
    \E rel \in RelPaths :
        /\ Took(rel)
        /\ IsPrefix(p, Join(ToBase, rel))
        /\ p # Join(ToBase, rel)
        /\ fs[p].kind = "none"
        /\ fs'[p] = DirEntry
        /\ fs'[Join(ToBase, rel)] # fs[Join(ToBase, rel)]

C10_NoPushBack ==
    cmd = "sync" =>
        \A n \in Names : \A rel \in RelPaths : ~(Pulled(n, rel) /\ Pushed(n, rel))
====
